---- MODULE Spec2Model ----
(***************************************************************************)
(* PCT_Tokenizer (metro/modeling/model/pct_tokenizer.py): the vector       *)
(* quantizer with its EMA codebook, the (stage_pct, train) branching of    *)
(* forward, the all-reduce of the data-parallel workers, and init_weights. *)
(*                                                                         *)
(* Tensor entries are exact rationals.  TLC's integers are 32 bits wide    *)
(* and the Laplace constant is 1e-5, so numerators and denominators are    *)
(* multi-limb naturals (little-endian, base 10000).                        *)
(***************************************************************************)
EXTENDS Integers, Sequences, FiniteSets, TLC

(***************************************************************************)
(* Multi-limb naturals: <<>> is 0, the last limb is never 0.               *)
(***************************************************************************)
Base == 10000

RECURSIVE BNTrim(_)
BNTrim(a) ==
    IF a = <<>> THEN <<>>
    ELSE IF a[Len(a)] = 0 THEN BNTrim(SubSeq(a, 1, Len(a) - 1))
    ELSE a

BNOfInt(k) ==
    IF k = 0 THEN <<>>
    ELSE IF k < Base THEN <<k>>
    ELSE IF k < Base * Base THEN <<k % Base, k \div Base>>
    ELSE <<k % Base, (k \div Base) % Base, k \div (Base * Base)>>

RECURSIVE BNAddC(_, _, _)
BNAddC(a, b, c) ==
    IF a = <<>> /\ b = <<>> THEN (IF c = 0 THEN <<>> ELSE <<c>>)
    ELSE LET x == IF a = <<>> THEN 0 ELSE Head(a)
             y == IF b = <<>> THEN 0 ELSE Head(b)
             s == x + y + c
         IN  <<s % Base>> \o BNAddC(IF a = <<>> THEN <<>> ELSE Tail(a),
                                    IF b = <<>> THEN <<>> ELSE Tail(b),
                                    s \div Base)

BNAdd(a, b) == BNAddC(a, b, 0)

\* a - b for a >= b, before trimming; c is the borrow
RECURSIVE BNSubC(_, _, _)
BNSubC(a, b, c) ==
    IF a = <<>> THEN <<>>
    ELSE LET y == IF b = <<>> THEN 0 ELSE Head(b)
             s == Head(a) - y - c
         IN  <<IF s < 0 THEN s + Base ELSE s>>
                 \o BNSubC(Tail(a), IF b = <<>> THEN <<>> ELSE Tail(b),
                           IF s < 0 THEN 1 ELSE 0)

BNSub(a, b) == BNTrim(BNSubC(a, b, 0))

\* -1, 0, 1 as a < b, a = b, a > b
RECURSIVE BNCmpAt(_, _, _)
BNCmpAt(a, b, i) ==
    IF i = 0 THEN 0
    ELSE IF a[i] < b[i] THEN -1
    ELSE IF a[i] > b[i] THEN 1
    ELSE BNCmpAt(a, b, i - 1)

BNCmp(a, b) ==
    IF Len(a) < Len(b) THEN -1
    ELSE IF Len(a) > Len(b) THEN 1
    ELSE BNCmpAt(a, b, Len(a))

RECURSIVE BNMulSmall(_, _, _)
BNMulSmall(a, m, c) ==
    IF a = <<>> THEN (IF c = 0 THEN <<>> ELSE <<c>>)
    ELSE LET s == Head(a) * m + c
         IN  <<s % Base>> \o BNMulSmall(Tail(a), m, s \div Base)

RECURSIVE BNMul(_, _)
BNMul(a, b) ==
    IF a = <<>> \/ b = <<>> THEN <<>>
    ELSE LET rest == BNMul(a, Tail(b))
         IN  BNAdd(BNMulSmall(a, Head(b), 0),
                   IF rest = <<>> THEN <<>> ELSE <<0>> \o rest)

\* a quotient digit q >= 1 with q * b <= r, for b <= r < b * Base
QEst(r, b) ==
    LET top == IF Len(r) > Len(b) THEN r[Len(b) + 1] * Base + r[Len(b)]
               ELSE r[Len(b)]
        e == top \div (b[Len(b)] + 1)
    IN  IF e = 0 THEN 1 ELSE e

\* <<q + r \div b, r % b>> for r < b * Base
RECURSIVE DivStep(_, _, _)
DivStep(r, b, q) ==
    IF BNCmp(r, b) < 0 THEN <<q, r>>
    ELSE LET e == QEst(r, b)
         IN  DivStep(BNSub(r, BNMulSmall(b, e, 0)), b, q + e)

\* long division from limb i of a downwards; r is the running remainder and
\* qs the quotient limbs found so far
RECURSIVE BNDivModAt(_, _, _, _, _)
BNDivModAt(a, b, i, r, qs) ==
    IF i = 0 THEN <<BNTrim(qs), r>>
    ELSE LET step == DivStep(BNTrim(<<a[i]>> \o r), b, 0)
         IN  BNDivModAt(a, b, i - 1, step[2], <<step[1]>> \o qs)

\* <<a \div b, a % b>> for b # 0
BNDivMod(a, b) == BNDivModAt(a, b, Len(a), <<>>, <<>>)

RECURSIVE BNGcd(_, _)
BNGcd(a, b) == IF b = <<>> THEN a ELSE BNGcd(b, BNDivMod(a, b)[2])

(***************************************************************************)
(* Rationals [neg, num, den]: den > 0, zero is never negative.  A value    *)
(* has many representations; REq compares values.                          *)
(***************************************************************************)
Rat(neg, num, den) == [neg |-> neg /\ num # <<>>, num |-> num, den |-> den]

RInt(k) == IF k < 0 THEN Rat(TRUE, BNOfInt(-k), <<1>>)
           ELSE Rat(FALSE, BNOfInt(k), <<1>>)

RFrac(p, q) == IF p < 0 THEN Rat(TRUE, BNOfInt(-p), BNOfInt(q))
               ELSE Rat(FALSE, BNOfInt(p), BNOfInt(q))

RZero == RInt(0)

RNeg(x) == Rat(~x.neg, x.num, x.den)

\* signed sum of two numerators over the common denominator d
RAddSigned(xn, xnum, yn, ynum, d) ==
    IF xn = yn THEN Rat(xn, BNAdd(xnum, ynum), d)
    ELSE IF BNCmp(xnum, ynum) >= 0 THEN Rat(xn, BNSub(xnum, ynum), d)
    ELSE Rat(yn, BNSub(ynum, xnum), d)

\* x + y over the larger denominator when the smaller one divides it
RAddOver(x, y) ==
    LET dm == BNDivMod(x.den, y.den)
    IN  IF dm[2] = <<>>
        THEN RAddSigned(x.neg, x.num, y.neg, BNMul(y.num, dm[1]), x.den)
        ELSE RAddSigned(x.neg, BNMul(x.num, y.den), y.neg, BNMul(y.num, x.den),
                        BNMul(x.den, y.den))

RAdd(x, y) ==
    IF x.num = <<>> THEN y
    ELSE IF y.num = <<>> THEN x
    ELSE IF x.den = y.den THEN RAddSigned(x.neg, x.num, y.neg, y.num, x.den)
    ELSE IF BNCmp(x.den, y.den) > 0 THEN RAddOver(x, y)
    ELSE RAddOver(y, x)

RSub(x, y) == RAdd(x, RNeg(y))

RMul(x, y) ==
    IF x.num = <<>> \/ y.num = <<>> THEN Rat(FALSE, <<>>, <<1>>)
    ELSE IF y.den = <<1>> /\ y.num = <<1>> THEN Rat(x.neg # y.neg, x.num, x.den)
    ELSE IF x.den = <<1>> /\ x.num = <<1>> THEN Rat(x.neg # y.neg, y.num, y.den)
    ELSE Rat(x.neg # y.neg, BNMul(x.num, y.num), BNMul(x.den, y.den))

REq(x, y) ==
    /\ x.neg = y.neg
    /\ IF x.den = y.den THEN x.num = y.num
       ELSE BNMul(x.num, y.den) = BNMul(y.num, x.den)

\* x < y
RLess(x, y) ==
    LET l == IF x.den = y.den THEN x.num ELSE BNMul(x.num, y.den)
        r == IF x.den = y.den THEN y.num ELSE BNMul(y.num, x.den)
    IN  IF x.neg /\ ~y.neg THEN TRUE
        ELSE IF ~x.neg /\ y.neg THEN FALSE
        ELSE IF x.neg THEN BNCmp(l, r) > 0
        ELSE BNCmp(l, r) < 0

\* x / y; a zero divisor gives the float result nan (0/0) or inf
RDiv(x, y) ==
    IF y.num = <<>> THEN (IF x.num = <<>> THEN "nan" ELSE "inf")
    ELSE IF x.num = <<>> THEN Rat(FALSE, <<>>, <<1>>)
    ELSE IF x.den = y.den THEN Rat(x.neg # y.neg, x.num, y.num)
    ELSE IF BNCmp(x.den, y.den) > 0
    THEN LET dm == BNDivMod(x.den, y.den)
         IN  IF dm[2] = <<>> THEN Rat(x.neg # y.neg, x.num, BNMul(y.num, dm[1]))
             ELSE Rat(x.neg # y.neg, BNMul(x.num, y.den), BNMul(x.den, y.num))
    ELSE LET dm == BNDivMod(y.den, x.den)
         IN  IF dm[2] = <<>> THEN Rat(x.neg # y.neg, BNMul(x.num, dm[1]), y.num)
             ELSE Rat(x.neg # y.neg, BNMul(x.num, y.den), BNMul(x.den, y.num))

\* the same value in lowest terms
Reduce(x) ==
    IF x.num = <<>> THEN Rat(FALSE, <<>>, <<1>>)
    ELSE LET g == BNGcd(x.num, x.den)
         IN  Rat(x.neg, BNDivMod(x.num, g)[1], BNDivMod(x.den, g)[1])

(***************************************************************************)
(* Tensors: a vector is a sequence of rationals, a matrix a sequence of    *)
(* rows.                                                                   *)
(***************************************************************************)
\* a tensor is held as its entries: TLC would otherwise keep a function
\* constructor unevaluated and recompute an entry at every use
Vec(f) == f \o <<>>

RECURSIVE Sum(_)
Sum(v) == IF v = <<>> THEN RZero ELSE RAdd(Head(v), Sum(Tail(v)))

Dot(u, v) == Sum(Vec([k \in 1..Len(u) |-> RMul(u[k], v[k])]))

SumSq(v) == Dot(v, v)

Transpose(m, cols) == Vec([j \in 1..cols |-> Vec([i \in 1..Len(m) |-> m[i][j]])])

\* a [r, k] times b [k, cols]
MatMul(a, b, cols) ==
    Vec([i \in 1..Len(a) |->
        Vec([j \in 1..cols |-> Sum(Vec([k \in 1..Len(b) |-> RMul(a[i][k], b[k][j])]))])])

\* torch.sum(m, 0) of a matrix with `cols` columns
ColSum(m, cols) == Vec([j \in 1..cols |-> Sum(Vec([i \in 1..Len(m) |-> m[i][j]]))])

RECURSIVE Flatten(_)
Flatten(m) == IF m = <<>> THEN <<>> ELSE Head(m) \o Flatten(Tail(m))

\* flat.view(rows, cols)
View(flat, rows, cols) ==
    Vec([i \in 1..rows |-> SubSeq(flat, (i - 1) * cols + 1, i * cols)])

VecEq(u, v) == Len(u) = Len(v) /\ \A k \in 1..Len(u) : REq(u[k], v[k])

MatEq(a, b) == Len(a) = Len(b) /\ \A i \in 1..Len(a) : VecEq(a[i], b[i])

(***************************************************************************)
(* Configuration of PCT_Tokenizer.__init__ and the inputs of forward.      *)
(* Token classes are numbered 1..TokenClassNum here (0-based in torch).    *)
(***************************************************************************)
TokenNum == 2
TokenClassNum == 2
TokenDim == 2
Decay == RFrac(1, 2)
Eps == RFrac(1, 100000)

Workers == {1, 2}
Stages == {"tokenizer", "classifier"}
None == <<>>

\* forward calls made on each worker
MaxCalls == 2

\* joints.shape[0]
Batches == {1}

\* codebook.data.normal_() and ema_w.data.normal_(): any values.  The first
\* codebook has pairwise different entries (-1, 1, ..), (1, 1, ..),
\* (3, 1, ..); the second holds the vector (1, 1, ..) in every entry
DistinctCodebook ==
    Vec([c \in 1..(TokenClassNum) |->
        Vec([d \in 1..TokenDim |-> IF d = 1 THEN RInt(2 * c - 3) ELSE RInt(1)])])

RepeatedCodebook == Vec([c \in 1..(TokenClassNum) |->
        Vec([d \in 1..TokenDim |-> RInt(1)])])

InitCodebooks == {DistinctCodebook, RepeatedCodebook}

\* the workers being alike, of two constructions that differ by exchanging
\* the workers one is tried
Ordered(S) ==
    {f \in [Workers -> S] :
        \A w, v \in Workers :
            (w < v /\ f[w] # f[v]) => f[w] = CHOOSE x \in S : TRUE}

InitStages == Ordered(Stages)

InitBuffers == Ordered(InitCodebooks)

\* one ema_w is tried with each codebook
InitEmaW(cb) ==
    IF cb = RepeatedCodebook
    THEN Vec([c \in 1..(TokenClassNum) |->
        Vec([d \in 1..TokenDim |-> RInt(c + d - 2)])])
    ELSE Vec([c \in 1..(TokenClassNum) |->
        Vec([d \in 1..TokenDim |-> RInt(c - d)])])

\* what the encoder (start_embed .. feature_embed, the Mixer blocks opaque)
\* hands to the quantizer, [bs * token_num, token_dim]: features that are
\* entries of the first codebook, and the vector (1, 1, ..) followed by
\* vectors (1, .., 1, -1)
EncodeFeats(jbs) ==
    << Vec([i \in 1..(jbs * TokenNum) |->
        Vec([d \in 1..TokenDim |-> DistinctCodebook[((i - 1) % TokenClassNum) + 1][d]])]),
       Vec([i \in 1..(jbs * TokenNum) |->
        Vec([d \in 1..TokenDim |-> IF i > 1 /\ d = TokenDim THEN RInt(-1) ELSE RInt(1)])]) >>

\* the cls_logits argument, [bs * token_num, token_class_num], used by the
\* classifier stage only: one-hot rows, and fractional rows
ClsLogits(stage, jbs) ==
    IF stage = "classifier"
    THEN << Vec([i \in 1..(jbs * TokenNum) |->
        Vec([c \in 1..TokenClassNum |-> RFrac(c, 2 * i)])]),
            Vec([i \in 1..(jbs * TokenNum) |->
        Vec([c \in 1..TokenClassNum |-> IF c = ((i - 1) % TokenClassNum) + 1 THEN RInt(1) ELSE RInt(0)])]) >>
    ELSE <<None, None>>

\* the inputs of a call: the k-th features come with the k-th cls_logits
Inputs == 1..2

\* ---------------------------------------------------------------------------
\* init_weights: names are sequences of segments, Prefix standing for the
\* substring 'keypoint_head.tokenizer.'
Prefix == "keypoint_head.tokenizer."

\* lines 263-265 (two of the module's parameters stand for all of them)
parameters_names == {<<"invisible_token">>, <<"token_mlp.weight">>}

\* lines 267-269
buffers_names == {<<"codebook">>, <<"ema_cluster_size">>, <<"ema_w">>}

KeepName(name) == name

\* lines 284-285: str.replace removes every occurrence of the substring
StripName(name) ==
    IF \E i \in 1..Len(name) : name[i] = Prefix
    THEN SelectSeq(name, LAMBDA seg : seg # Prefix)
    ELSE name

\* lines 277 and 283-287: the entries kept for loading, a later entry
\* replacing an earlier one of the same stripped name
RECURSIVE NeedInitStateDict(_, _)
NeedInitStateDict(items, acc) ==
    IF items = <<>> THEN acc
    ELSE LET name == StripName(Head(items).name)
         IN  NeedInitStateDict(Tail(items),
                 IF name \in parameters_names \/ name \in buffers_names
                 THEN [x \in (DOMAIN acc) \cup {name} |->
                          IF x = name THEN Head(items).m ELSE acc[x]]
                 ELSE acc)

\* lines 279-282
StateDictKey(pretrained_state_dict) ==
    IF "state_dict" \in DOMAIN pretrained_state_dict THEN "state_dict" ELSE "model"

\* line 288: load_state_dict copies every entry it is given into the module
\* and then, strict, raises if a parameter or buffer of the module had no entry
Loaded(state_dict, name, old) ==
    IF name \in DOMAIN state_dict THEN state_dict[name] ELSE old

LoadOutcome(state_dict) ==
    IF DOMAIN state_dict = parameters_names \cup buffers_names
    THEN "ok" ELSE "RuntimeError"

\* the checkpoints init_weights is tried on
CkptCodebook1 ==
    Vec([c \in 1..(TokenClassNum) |->
        Vec([d \in 1..TokenDim |-> IF c = d THEN RInt(2) ELSE RInt(0)])])
CkptCodebook2 == Vec([c \in 1..(TokenClassNum) |->
        Vec([d \in 1..TokenDim |-> RInt(c + d)])])
CkptEmaClusterSize == Vec([c \in 1..TokenClassNum |-> RInt(2 * c - 1)])
CkptEmaW == Vec([c \in 1..(TokenClassNum) |->
        Vec([d \in 1..TokenDim |-> RInt(c * d)])])

Item(name, m) == [name |-> name, m |-> m]

TokenizerItems(prefix) ==
    << Item(prefix \o <<"codebook">>, CkptCodebook1),
       Item(prefix \o <<"ema_cluster_size">>, CkptEmaClusterSize),
       Item(prefix \o <<"ema_w">>, CkptEmaW),
       Item(prefix \o <<"invisible_token">>, "ckpt"),
       Item(prefix \o <<"token_mlp.weight">>, "ckpt") >>

OtherItems ==
    << Item(<<"backbone.", "weight">>, "other"),
       Item(<<"backbone.", Prefix, "codebook">>, CkptCodebook2) >>

StateDicts ==
    << TokenizerItems(<<Prefix>>) \o OtherItems,
       OtherItems \o TokenizerItems(<<>>),
       <<Item(<<Prefix, "codebook">>, CkptCodebook1)>> \o OtherItems,
       TokenizerItems(<<Prefix>>) \o <<Item(<<"codebook">>, CkptCodebook2)>>,
       <<Item(<<"codebook">>, CkptCodebook2)>> \o TokenizerItems(<<Prefix>>),
       <<>> >>

\* each list of entries under 'state_dict', under 'model', under 'state_dict'
\* beside an empty 'model', and under neither key
Checkpoint(items, shape) ==
    CASE shape = 0 -> [k \in {"state_dict"} |-> items]
      [] shape = 1 -> [k \in {"model"} |-> items]
      [] shape = 2 -> [k \in {"state_dict", "model"} |->
                          IF k = "state_dict" THEN items ELSE <<>>]
      [] OTHER -> [k \in {"optimizer"} |-> items]

\* the file system: path i holds Files[i], path 0 (the default '') is no file
Files == [i \in 1..(4 * Len(StateDicts)) |->
             Checkpoint(StateDicts[((i - 1) \div 4) + 1], (i - 1) % 4)]

Paths == 0..(4 * Len(StateDicts))

\* line 271
IsFile(path) == path \in DOMAIN Files

\* line 274
TorchLoad(path) == Files[path]

VARIABLES
    stage_pct,            \* self.stage_pct of each worker's module
    codebook,             \* the three registered buffers, per worker
    ema_cluster_size,
    ema_w,
    pc,                   \* "idle", "allreduce" (inside dist.all_reduce), "reduced"
    train,                \* the arguments of the current / last call
    joints_bs,            \*   joints.shape[0]
    cls_logits,
    calls,                \* forward calls completed
    bs,                   \* locals and results of the current / last call
    encode_feat,
    encoding_indices,
    part_token_feat,
    combined,
    n,
    e_latent_loss,
    out_part_token_feat,
    codebook_in,          \* the buffers as the current / last call found them
    ema_cluster_size_in,
    ema_w_in,
    allreduces,           \* all-reduces completed by the current / last call
    updates,              \* EMA updates performed by the current / last call
    pretrained,           \* the path given to init_weights
    parameters,           \* the module's named parameters
    init_outcome,         \* how init_weights ended, "none" before it is called
    warned                \* init_weights printed its warning

vars == <<stage_pct, codebook, ema_cluster_size, ema_w, pc, train, joints_bs,
          cls_logits, calls, bs, encode_feat, encoding_indices, part_token_feat,
          combined, n, e_latent_loss, out_part_token_feat, codebook_in,
          ema_cluster_size_in, ema_w_in, allreduces, updates, pretrained,
          parameters, init_outcome, warned>>
init_vars == <<pretrained, parameters, init_outcome, warned>>
forward_vars == <<pc, train, joints_bs, cls_logits, calls, bs, encode_feat,
                  encoding_indices, part_token_feat, combined, n, e_latent_loss,
                  out_part_token_feat, allreduces, updates>>

(***************************************************************************)
(* The branch conditions of forward.                                       *)
(***************************************************************************)
EncoderPathOnlyTokenizer(tr, stage) == stage = "tokenizer"

\* line 166
EncoderPath(tr, stage) == tr \/ stage = "tokenizer"

EmaBranchTrainOnly(tr, stage) == tr

EmaBranchTokenizerOnly(tr, stage) == stage = "tokenizer"

\* line 215
EmaBranch(tr, stage) == tr /\ stage = "tokenizer"

(***************************************************************************)
(* Nearest-neighbour quantization, lines 195-202.                          *)
(***************************************************************************)
Distances(feat, cb) ==
    Vec([i \in 1..Len(feat) |->
        Vec([c \in 1..Len(cb) |->
            RSub(RAdd(SumSq(feat[i]), SumSq(cb[c])),
                 RMul(RInt(2), Dot(feat[i], cb[c])))])])

RECURSIVE ArgminLastFrom(_, _, _)
ArgminLastFrom(row, best, c) ==
    IF c > Len(row) THEN best
    ELSE ArgminLastFrom(row, IF RLess(row[best], row[c]) THEN best ELSE c, c + 1)

ArgminLast(row) == ArgminLastFrom(row, 1, 2)

RECURSIVE ArgminFrom(_, _, _)
ArgminFrom(row, best, c) ==
    IF c > Len(row) THEN best
    ELSE ArgminFrom(row, IF RLess(row[c], row[best]) THEN c ELSE best, c + 1)

\* torch.argmin: the first index of the minimum
Argmin(row) == ArgminFrom(row, 1, 2)

EncodingIndices(feat, cb) ==
    LET distances == Distances(feat, cb)
    IN  Vec([i \in 1..Len(feat) |-> Argmin(distances[i])])

\* torch.zeros(..).scatter_(1, encoding_indices.unsqueeze(1), 1)
Encodings(indices) ==
    Vec([i \in 1..Len(indices) |->
        Vec([c \in 1..TokenClassNum |-> IF c = indices[i] THEN RInt(1) ELSE RInt(0)])])

(***************************************************************************)
(* forward up to line 213.                                                 *)
(***************************************************************************)
\* lines 168-171 and 207
BatchSize(tr, stage, jbs, logits) ==
    IF EncoderPath(tr, stage) THEN jbs
    ELSE Len(logits) \div TokenNum

\* lines 199 and 208
Indices(tr, stage, feat, cb) ==
    IF EncoderPath(tr, stage) THEN EncodingIndices(feat, cb) ELSE None

\* lines 210-213
PartTokenFeat(stage, indices, logits, cb) ==
    IF stage = "classifier" THEN MatMul(logits, cb, TokenDim)
    ELSE MatMul(Encodings(indices), cb, TokenDim)

\* part_token_feat.view(bs, -1, self.token_dim)
View3(m, b) ==
    Vec([k \in 1..b |-> SubSeq(m, (k - 1) * (Len(m) \div b) + 1, k * (Len(m) \div b))])

(***************************************************************************)
(* The EMA update, lines 217-238.                                          *)
(***************************************************************************)
\* lines 223-225: the two parts of the reduced payload, n_tokens the number
\* of rows of encodings
SyncEncodings(payload, n_tokens) ==
    View(SubSeq(payload, 1, n_tokens * TokenClassNum), n_tokens, TokenClassNum)

SyncDw(payload, n_tokens) ==
    View(SubSeq(payload, n_tokens * TokenClassNum + 1, Len(payload)),
         TokenClassNum, TokenDim)

\* dw = encodings.t() @ encode_feat.detach()
Dw(indices, feat) ==
    MatMul(Transpose(Encodings(indices), TokenClassNum), feat, TokenDim)

\* torch.cat((encodings.flatten(), dw.flatten()))
Combined(indices, feat) == Flatten(Encodings(indices)) \o Flatten(Dw(indices, feat))

RECURSIVE SumOver(_, _, _)
SumOver(payload, ws, k) ==
    IF ws = {} THEN RZero
    ELSE LET v == CHOOSE x \in ws : TRUE
         IN  RAdd(payload[v][k], SumOver(payload, ws \ {v}, k))

AllReduceLocal(payload, w) == payload[w]

\* dist.all_reduce(combined): every worker receives the element-wise sum
AllReduceResult(payload, w) ==
    Vec([k \in 1..Len(payload[w]) |-> SumOver(payload, Workers, k)])

RenormalizeNoClassCount(e, mass) ==
    Vec([c \in 1..Len(e) |-> RMul(RDiv(RAdd(e[c], Eps), RAdd(mass, Eps)), mass)])

\* lines 231-233
Renormalize(e, mass) ==
    Vec([c \in 1..Len(e) |->
        RMul(RDiv(RAdd(e[c], Eps),
                  RAdd(mass, RMul(RInt(TokenClassNum), Eps))), mass)])

BlendW(emaw, sync_dw) ==
    Vec([c \in 1..Len(emaw) |->
        Vec([d \in 1..TokenDim |->
            RAdd(RMul(emaw[c][d], Decay),
                 RMul(RSub(RInt(1), Decay), sync_dw[c][d]))])])

\* lines 227-228
BlendSize(ecs, sync_encodings) ==
    Vec([c \in 1..Len(ecs) |->
        RAdd(RMul(ecs[c], Decay),
             RMul(RSub(RInt(1), Decay), ColSum(sync_encodings, TokenClassNum)[c]))])

\* line 230, the sum held in lowest terms
Mass(blended) == Reduce(Sum(blended))

\* line 236
Ratio(emaw, size) ==
    Vec([c \in 1..Len(emaw) |->
        Vec([d \in 1..TokenDim |-> RDiv(emaw[c][d], size[c])])])

EmaStoredStaleW(mass, size, old_w, new_w) ==
    [ema_cluster_size |-> size, n |-> mass, ema_w |-> new_w,
     codebook |-> Ratio(old_w, size)]

\* what lines 227-236 leave in n and in the three buffers
EmaStored(mass, size, old_w, new_w) ==
    [ema_cluster_size |-> size, n |-> mass, ema_w |-> new_w,
     codebook |-> Ratio(new_w, size)]

EmaRenormalized(mass, blended, old_w, new_w) ==
    EmaStored(mass, Renormalize(blended, mass), old_w, new_w)

EmaBlended(blended, old_w, new_w) ==
    EmaRenormalized(Mass(blended), blended, old_w, new_w)

\* lines 227-236
EmaUpdate(ecs, emaw, sync_encodings, sync_dw) ==
    EmaBlended(BlendSize(ecs, sync_encodings), emaw, BlendW(emaw, sync_dw))

\* F.mse_loss(a, b): the mean of the squared differences
MseLoss(a, b) ==
    RDiv(Sum(Flatten(Vec([i \in 1..Len(a) |->
                Vec([d \in 1..Len(a[i]) |->
                    RMul(RSub(a[i][d], b[i][d]), RSub(a[i][d], b[i][d]))])]))),
         RInt(Len(a) * TokenDim))

\* encode_feat + (part_token_feat - encode_feat).detach()
StraightThrough(feat, ptf) ==
    Vec([i \in 1..Len(feat) |->
        Vec([d \in 1..Len(feat[i]) |-> RAdd(feat[i][d], RSub(ptf[i][d], feat[i][d]))])])

QuantizedAfterUpdate(indices, cb_before, cb_after) ==
    MatMul(Encodings(indices), cb_after, TokenDim)

\* the quantized features that the loss and the decoder see: part_token_feat
\* of line 213, computed before line 236 replaces self.codebook
Quantized(indices, cb_before, cb_after) ==
    MatMul(Encodings(indices), cb_before, TokenDim)

(***************************************************************************)
(* The training loop steps every worker once per iteration: a worker       *)
(* starts its next forward call when no worker is a call behind it.        *)
(***************************************************************************)
LockStep(w) == \A v \in Workers : calls[v] >= calls[w]

\* lines 88-161: the module as __init__ leaves it, no forward call made yet
Constructed ==
    /\ stage_pct \in InitStages
    /\ codebook \in InitBuffers
    /\ ema_cluster_size = [w \in Workers |-> Vec([c \in 1..TokenClassNum |-> RZero])]
    /\ ema_w = [w \in Workers |-> InitEmaW(codebook[w])]
    /\ parameters = [w \in Workers |-> [p \in parameters_names |-> "init"]]
    /\ init_outcome = [w \in Workers |-> "none"]
    /\ warned = [w \in Workers |-> FALSE]
    /\ pc = [w \in Workers |-> "idle"]
    /\ train = [w \in Workers |-> FALSE]
    /\ joints_bs = [w \in Workers |-> 0]
    /\ cls_logits = [w \in Workers |-> None]
    /\ calls = [w \in Workers |-> 0]
    /\ bs = [w \in Workers |-> 0]
    /\ encode_feat = [w \in Workers |-> None]
    /\ encoding_indices = [w \in Workers |-> None]
    /\ part_token_feat = [w \in Workers |-> None]
    /\ combined = [w \in Workers |-> None]
    /\ n = [w \in Workers |-> None]
    /\ e_latent_loss = [w \in Workers |-> None]
    /\ out_part_token_feat = [w \in Workers |-> None]
    /\ codebook_in = codebook
    /\ ema_cluster_size_in = ema_cluster_size
    /\ ema_w_in = ema_w
    /\ allreduces = [w \in Workers |-> 0]
    /\ updates = [w \in Workers |-> 0]

\* the forward calls are studied on modules that loaded no checkpoint
Init ==
    /\ Constructed
    /\ pretrained = 0

\* a forward call that takes the else branch of line 215: lines 166-213,
\* 240-258 (the decoder is opaque and changes no state)
Forward(w) ==
    /\ pc[w] = "idle"
    /\ calls[w] < MaxCalls
    /\ LockStep(w)
    /\ \E tr \in BOOLEAN, jbs \in Batches, input \in Inputs :
          /\ ~EmaBranch(tr, stage_pct[w])
          /\ train' = [train EXCEPT ![w] = tr]
          /\ joints_bs' = [joints_bs EXCEPT ![w] = jbs]
          /\ cls_logits' = [cls_logits EXCEPT ![w] =
                                ClsLogits(stage_pct[w], jbs)[input]]
          /\ bs' = [bs EXCEPT ![w] =
                        BatchSize(tr, stage_pct[w], jbs, cls_logits'[w])]
          /\ encode_feat' = [encode_feat EXCEPT ![w] =
                                 IF EncoderPath(tr, stage_pct[w])
                                 THEN EncodeFeats(jbs)[input] ELSE None]
          /\ encoding_indices' = [encoding_indices EXCEPT ![w] =
                 Indices(tr, stage_pct[w], encode_feat'[w], codebook[w])]
          /\ part_token_feat' = [part_token_feat EXCEPT ![w] =
                 PartTokenFeat(stage_pct[w], encoding_indices'[w], cls_logits'[w],
                               codebook[w])]
          /\ e_latent_loss' = [e_latent_loss EXCEPT ![w] = None]
          /\ out_part_token_feat' = [out_part_token_feat EXCEPT ![w] =
                 View3(part_token_feat'[w], bs'[w])]
    /\ combined' = [combined EXCEPT ![w] = None]
    /\ n' = [n EXCEPT ![w] = None]
    /\ codebook_in' = [codebook_in EXCEPT ![w] = codebook[w]]
    /\ ema_cluster_size_in' = [ema_cluster_size_in EXCEPT ![w] = ema_cluster_size[w]]
    /\ ema_w_in' = [ema_w_in EXCEPT ![w] = ema_w[w]]
    /\ allreduces' = [allreduces EXCEPT ![w] = 0]
    /\ updates' = [updates EXCEPT ![w] = 0]
    /\ calls' = [calls EXCEPT ![w] = @ + 1]
    /\ UNCHANGED <<stage_pct, codebook, ema_cluster_size, ema_w, pc>>
    /\ UNCHANGED init_vars

\* a forward call that takes the EMA branch, up to its entry into
\* dist.all_reduce: lines 166-222
ForwardToAllReduce(w) ==
    /\ pc[w] = "idle"
    /\ calls[w] < MaxCalls
    /\ LockStep(w)
    /\ \E tr \in BOOLEAN, jbs \in Batches, input \in Inputs :
          /\ EmaBranch(tr, stage_pct[w])
          /\ train' = [train EXCEPT ![w] = tr]
          /\ joints_bs' = [joints_bs EXCEPT ![w] = jbs]
          /\ cls_logits' = [cls_logits EXCEPT ![w] =
                                ClsLogits(stage_pct[w], jbs)[input]]
          /\ bs' = [bs EXCEPT ![w] =
                        BatchSize(tr, stage_pct[w], jbs, cls_logits'[w])]
          /\ encode_feat' = [encode_feat EXCEPT ![w] = EncodeFeats(jbs)[input]]
          /\ encoding_indices' = [encoding_indices EXCEPT ![w] =
                 Indices(tr, stage_pct[w], encode_feat'[w], codebook[w])]
          /\ part_token_feat' = [part_token_feat EXCEPT ![w] =
                 PartTokenFeat(stage_pct[w], encoding_indices'[w], cls_logits'[w],
                               codebook[w])]
          /\ combined' = [combined EXCEPT ![w] =
                 Combined(encoding_indices'[w], encode_feat'[w])]
    /\ n' = [n EXCEPT ![w] = None]
    /\ e_latent_loss' = [e_latent_loss EXCEPT ![w] = None]
    /\ out_part_token_feat' = [out_part_token_feat EXCEPT ![w] = None]
    /\ codebook_in' = [codebook_in EXCEPT ![w] = codebook[w]]
    /\ ema_cluster_size_in' = [ema_cluster_size_in EXCEPT ![w] = ema_cluster_size[w]]
    /\ ema_w_in' = [ema_w_in EXCEPT ![w] = ema_w[w]]
    /\ allreduces' = [allreduces EXCEPT ![w] = 0]
    /\ updates' = [updates EXCEPT ![w] = 0]
    /\ pc' = [pc EXCEPT ![w] = "allreduce"]
    /\ UNCHANGED <<stage_pct, codebook, ema_cluster_size, ema_w, calls>>
    /\ UNCHANGED init_vars

\* an all-reduce that lets a worker through alone, with its own payload
AllReduceNoWait ==
    \E w \in Workers :
        /\ pc[w] = "allreduce"
        /\ combined' = [combined EXCEPT ![w] = AllReduceLocal(combined, w)]
        /\ pc' = [pc EXCEPT ![w] = "reduced"]
        /\ allreduces' = [allreduces EXCEPT ![w] = @ + 1]
        /\ UNCHANGED <<stage_pct, codebook, ema_cluster_size, ema_w, train, joints_bs,
                       cls_logits, calls, bs, encode_feat, encoding_indices,
                       part_token_feat, n, e_latent_loss, out_part_token_feat,
                       codebook_in, ema_cluster_size_in, ema_w_in, updates, pretrained,
                       parameters, init_outcome, warned>>

\* dist.all_reduce returns on every worker once every worker has entered it
AllReduce ==
    /\ \A w \in Workers : pc[w] = "allreduce"
    /\ combined' = [w \in Workers |-> AllReduceResult(combined, w)]
    /\ pc' = [w \in Workers |-> "reduced"]
    /\ allreduces' = [w \in Workers |-> allreduces[w] + 1]
    /\ UNCHANGED <<stage_pct, codebook, ema_cluster_size, ema_w, train, joints_bs,
                   cls_logits, calls, bs, encode_feat, encoding_indices,
                   part_token_feat, n, e_latent_loss, out_part_token_feat,
                   codebook_in, ema_cluster_size_in, ema_w_in, updates>>
    /\ UNCHANGED init_vars

\* the rest of the EMA branch and of the call: lines 223-258
ForwardFromAllReduce(w) ==
    /\ pc[w] = "reduced"
    /\ \E ema \in {EmaUpdate(ema_cluster_size[w], ema_w[w],
                              SyncEncodings(combined[w], Len(encoding_indices[w])),
                              SyncDw(combined[w], Len(encoding_indices[w])))} :
          /\ ema_cluster_size' = [ema_cluster_size EXCEPT ![w] = ema.ema_cluster_size]
          /\ n' = [n EXCEPT ![w] = ema.n]
          /\ ema_w' = [ema_w EXCEPT ![w] = ema.ema_w]
          /\ codebook' = [codebook EXCEPT ![w] = ema.codebook]
    /\ \E quantized \in {Quantized(encoding_indices[w], codebook[w], codebook'[w])} :
          /\ e_latent_loss' = [e_latent_loss EXCEPT ![w] =
                                   MseLoss(quantized, encode_feat[w])]
          /\ part_token_feat' = [part_token_feat EXCEPT ![w] =
                                     StraightThrough(encode_feat[w], quantized)]
    /\ out_part_token_feat' = [out_part_token_feat EXCEPT ![w] =
                                  View3(part_token_feat'[w], bs[w])]
    /\ updates' = [updates EXCEPT ![w] = @ + 1]
    /\ calls' = [calls EXCEPT ![w] = @ + 1]
    /\ pc' = [pc EXCEPT ![w] = "idle"]
    /\ UNCHANGED <<stage_pct, train, joints_bs, cls_logits, bs, encode_feat,
                   encoding_indices, combined, codebook_in, ema_cluster_size_in,
                   ema_w_in, allreduces>>
    /\ UNCHANGED init_vars

\* init_weights(pretrained), lines 260-293
InitWeights(w) ==
    /\ init_outcome[w] = "none"
    /\ IF IsFile(pretrained)
       THEN IF stage_pct[w] # "classifier"
            THEN /\ init_outcome' = [init_outcome EXCEPT ![w] = "AssertionError"]
                 /\ UNCHANGED <<codebook, ema_cluster_size, ema_w, parameters, warned>>
            ELSE IF StateDictKey(TorchLoad(pretrained)) \notin DOMAIN TorchLoad(pretrained)
            THEN /\ init_outcome' = [init_outcome EXCEPT ![w] = "KeyError"]
                 /\ UNCHANGED <<codebook, ema_cluster_size, ema_w, parameters, warned>>
            ELSE LET pretrained_state_dict == TorchLoad(pretrained)
                     need_init_state_dict ==
                         NeedInitStateDict(
                             pretrained_state_dict[StateDictKey(pretrained_state_dict)],
                             <<>>)
                 IN  /\ codebook' = [codebook EXCEPT ![w] =
                            Loaded(need_init_state_dict, <<"codebook">>, @)]
                     /\ ema_cluster_size' = [ema_cluster_size EXCEPT ![w] =
                            Loaded(need_init_state_dict, <<"ema_cluster_size">>, @)]
                     /\ ema_w' = [ema_w EXCEPT ![w] =
                            Loaded(need_init_state_dict, <<"ema_w">>, @)]
                     /\ parameters' = [parameters EXCEPT ![w] =
                            [p \in parameters_names |->
                                Loaded(need_init_state_dict, p, parameters[w][p])]]
                     /\ init_outcome' = [init_outcome EXCEPT ![w] =
                            LoadOutcome(need_init_state_dict)]
                     /\ UNCHANGED warned
       ELSE /\ warned' = [warned EXCEPT ![w] = stage_pct[w] = "classifier"]
            /\ init_outcome' = [init_outcome EXCEPT ![w] = "ok"]
            /\ UNCHANGED <<codebook, ema_cluster_size, ema_w, parameters>>
    /\ UNCHANGED <<stage_pct, pretrained, codebook_in, ema_cluster_size_in, ema_w_in>>
    /\ UNCHANGED forward_vars

Next ==
    \/ \E w \in Workers : Forward(w)
    \/ \E w \in Workers : ForwardToAllReduce(w)
    \/ AllReduce
    \/ \E w \in Workers : ForwardFromAllReduce(w)

Spec == Init /\ [][Next]_vars

\* init_weights on freshly constructed modules, with or without a file at the
\* given path
InitInitWeights ==
    /\ Constructed
    /\ pretrained \in Paths

NextInitWeights == \E w \in Workers : InitWeights(w)

SpecInitWeights == InitInitWeights /\ [][NextInitWeights]_vars

\* What the actions do to the control state <<pc, calls>>.  A step of Next
\* that changes <<pc, calls>> as Starts(w) does is a step of Forward(w) or
\* ForwardToAllReduce(w), and Starts(w) is possible exactly when one of them
\* is; likewise Reduces for AllReduce and Finishes(w) for
\* ForwardFromAllReduce(w).
Starts(w) ==
    /\ pc[w] = "idle"
    /\ calls[w] < MaxCalls
    /\ LockStep(w)
    /\ \/ pc' = pc /\ calls' = [calls EXCEPT ![w] = @ + 1]
       \/ pc' = [pc EXCEPT ![w] = "allreduce"] /\ calls' = calls

Reduces ==
    /\ \A w \in Workers : pc[w] = "allreduce"
    /\ pc' = [w \in Workers |-> "reduced"]
    /\ calls' = calls

Finishes(w) ==
    /\ pc[w] = "reduced"
    /\ pc' = [pc EXCEPT ![w] = "idle"]
    /\ calls' = [calls EXCEPT ![w] = @ + 1]

\* the training loop keeps every worker calling forward, a worker inside a
\* call keeps running it, and the collective returns once all have entered
FairSpec ==
    /\ Spec
    /\ \A w \in Workers : WF_<<pc, calls>>(Starts(w))
    /\ WF_<<pc, calls>>(Reduces)
    /\ \A w \in Workers : WF_<<pc, calls>>(Finishes(w))

\* ---------------------------------------------------------------------------
\* Properties

\* worker w is between calls and its variables hold what its last call returned
Returned(w) == pc[w] = "idle" /\ calls[w] > 0

TokenizerTrain(w) == train[w] /\ stage_pct[w] = "tokenizer"

Zeros == Vec([c \in 1..TokenClassNum |-> RZero])

C2_AsStated ==
    \A w \in Workers :
        (Returned(w) /\ stage_pct[w] = "classifier") =>
            /\ encode_feat[w] = None
            /\ encoding_indices[w] = None
            /\ bs[w] = Len(cls_logits[w]) \div TokenNum

\* C2: a classifier-stage call with train false skips the encoder, takes the
\* batch size from cls_logits.shape[0] // token_num and returns
\* encoding_indices None; every other call, the classifier-stage training call
\* included, runs the encoder and the nearest-neighbour lookup, takes the batch
\* size from joints and returns one class index per token.
C2_EncoderPath ==
    \A w \in Workers :
        Returned(w) =>
            IF stage_pct[w] = "classifier" /\ ~train[w]
            THEN /\ encode_feat[w] = None
                 /\ encoding_indices[w] = None
                 /\ bs[w] = Len(cls_logits[w]) \div TokenNum
            ELSE /\ encode_feat[w] # None
                 /\ Len(encoding_indices[w]) = bs[w] * TokenNum
                 /\ \A i \in 1..Len(encoding_indices[w]) :
                        encoding_indices[w][i] \in 1..TokenClassNum
                 /\ bs[w] = joints_bs[w]

C2_Witness ==
    \E w, v \in Workers :
        /\ Returned(w) /\ stage_pct[w] = "classifier" /\ train[w]
        /\ encoding_indices[w] # None
        /\ Returned(v) /\ stage_pct[v] = "classifier" /\ ~train[v]
        /\ encoding_indices[v] = None

\* C3: codebook, ema_cluster_size and ema_w of a worker change only in the
\* step that ends a tokenizer-stage training call; in particular no
\* classifier-stage call changes them.
C3_BuffersFrame ==
    [][\A w \in Workers :
          (\/ codebook'[w] # codebook[w]
           \/ ema_cluster_size'[w] # ema_cluster_size[w]
           \/ ema_w'[w] # ema_w[w])
          => (TokenizerTrain(w) /\ pc[w] = "reduced" /\ pc'[w] = "idle")]_vars

C3_Witness ==
    \E w \in Workers :
        /\ Returned(w) /\ stage_pct[w] = "classifier" /\ train[w]
        /\ calls[w] = MaxCalls
        /\ codebook[w] = codebook_in[w]
        /\ ema_cluster_size[w] = ema_cluster_size_in[w]
        /\ ema_w[w] = ema_w_in[w]

\* the workers entered their current / last call with the same buffers
SameAtEntry(w, v) ==
    /\ MatEq(codebook_in[w], codebook_in[v])
    /\ VecEq(ema_cluster_size_in[w], ema_cluster_size_in[v])
    /\ MatEq(ema_w_in[w], ema_w_in[v])

SameBuffers(w, v) ==
    /\ MatEq(codebook[w], codebook[v])
    /\ VecEq(ema_cluster_size[w], ema_cluster_size[v])
    /\ MatEq(ema_w[w], ema_w[v])

\* C4: workers that entered the same tokenizer-training step with identical
\* buffers hold identical buffers once each has finished that step's update,
\* whatever assignments each contributed, at every step of the run.
C4_WorkersAgree ==
    \A w, v \in Workers :
        (/\ Returned(w) /\ Returned(v) /\ calls[w] = calls[v]
         /\ updates[w] = 1 /\ updates[v] = 1
         /\ SameAtEntry(w, v))
        => SameBuffers(w, v)

C4_Witness ==
    \E w, v \in Workers :
        /\ w # v
        /\ Returned(w) /\ Returned(v)
        /\ calls[w] = MaxCalls /\ calls[v] = MaxCalls
        /\ updates[w] = 1 /\ updates[v] = 1
        /\ ema_cluster_size_in[w] # Zeros
        /\ SameAtEntry(w, v)
        /\ encoding_indices[w] # encoding_indices[v]
        /\ SameBuffers(w, v)

\* some worker has finished the call of the step that w is still in, so it did
\* not join w's all-reduce
Diverged(w) == \E v \in Workers : calls[v] > calls[w]

C6_CodebookIsRatio ==
    \A w \in Workers :
        ema_cluster_size[w] # Zeros =>
            \A c \in 1..TokenClassNum :
                /\ ~REq(ema_cluster_size[w][c], RZero)
                /\ \A d \in 1..TokenDim :
                       REq(RMul(codebook[w][c][d], ema_cluster_size[w][c]),
                           ema_w[w][c][d])

C6_Witness ==
    \E w \in Workers :
        /\ Returned(w) /\ calls[w] = MaxCalls
        /\ ~train[w] /\ updates[w] = 0
        /\ ema_cluster_size[w] # Zeros
        /\ codebook[w] \notin InitCodebooks

\* C7: after an EMA update the renormalised ema_cluster_size sums to n, the
\* sum of the decayed-and-blended ema_cluster_size it was computed from.
C7_MassPreserved ==
    \A w \in Workers :
        (Returned(w) /\ updates[w] = 1) =>
            /\ REq(Sum(ema_cluster_size[w]), n[w])
            /\ ~REq(n[w], RZero)

C7_Witness ==
    \E w \in Workers :
        /\ Returned(w) /\ updates[w] = 1
        /\ ema_cluster_size_in[w] = Zeros
        /\ \E c \in 1..TokenClassNum : ema_cluster_size[w][c] # n[w]
        /\ REq(Sum(ema_cluster_size[w]), n[w])

\* squared Euclidean distance, term by term
SquaredDistance(x, c) ==
    Sum(Vec([d \in 1..TokenDim |-> RMul(RSub(x[d], c[d]), RSub(x[d], c[d]))]))

\* C8 as stated: a query equal to codebook entry j is assigned class j.
C8_AsStated ==
    \A w \in Workers :
        encoding_indices[w] # None =>
            \A i \in 1..Len(encoding_indices[w]) :
                \A j \in 1..TokenClassNum :
                    VecEq(encode_feat[w][i], codebook_in[w][j])
                    => encoding_indices[w][i] = j

\* C8: the class assigned to a token is the lowest index among the codebook
\* entries at minimum squared Euclidean distance from its feature; a feature
\* equal to entry j is assigned the lowest index whose entry equals entry j
\* (j itself when no earlier entry is the same vector); and the assignment row
\* sent to the all-reduce is one-hot with its 1 at the assigned class.
C8_NearestNeighbour ==
    \A w \in Workers :
        encoding_indices[w] # None =>
            \A i \in 1..Len(encoding_indices[w]) :
                LET x == encode_feat[w][i]
                    sel == encoding_indices[w][i]
                    cb == codebook_in[w]
                IN  /\ sel \in 1..TokenClassNum
                    /\ \A dist \in {Vec([j \in 1..TokenClassNum |->
                                            SquaredDistance(x, cb[j])])} :
                          \A j \in 1..TokenClassNum :
                              /\ ~RLess(dist[j], dist[sel])
                              /\ j < sel => RLess(dist[sel], dist[j])
                    /\ \A j \in 1..TokenClassNum :
                          /\ VecEq(x, cb[j]) =>
                                /\ VecEq(cb[sel], cb[j])
                                /\ sel <= j
                                /\ \A k \in 1..(sel - 1) : ~VecEq(cb[k], cb[j])
                    /\ pc[w] = "allreduce" =>
                          \A c \in 1..TokenClassNum :
                              combined[w][(i - 1) * TokenClassNum + c]
                                  = IF c = sel THEN RInt(1) ELSE RInt(0)

C8_Witness ==
    \E w \in Workers :
        /\ pc[w] = "allreduce"
        /\ \E i \in 1..Len(encoding_indices[w]) :
              /\ encoding_indices[w][i] = TokenClassNum
              /\ VecEq(encode_feat[w][i], codebook_in[w][TokenClassNum])
        /\ \E i \in 1..Len(encoding_indices[w]) :
              \A j \in 1..TokenClassNum :
                  ~VecEq(encode_feat[w][i], codebook_in[w][j])

\* what the module holds under a parameter or buffer name
ModuleValue(w, name) ==
    CASE name = <<"codebook">> -> codebook[w]
      [] name = <<"ema_cluster_size">> -> ema_cluster_size[w]
      [] name = <<"ema_w">> -> ema_w[w]
      [] OTHER -> parameters[w][name]

\* what it held when it was constructed
ConstructedValue(w, name) ==
    CASE name = <<"codebook">> -> codebook_in[w]
      [] name = <<"ema_cluster_size">> -> ema_cluster_size_in[w]
      [] name = <<"ema_w">> -> ema_w_in[w]
      [] OTHER -> "init"

NothingLoaded(w) ==
    \A name \in parameters_names \cup buffers_names :
        ModuleValue(w, name) = ConstructedValue(w, name)

\* the checkpoint entries that carry a module name, bare or behind the prefix
MatchingItems(items, name) ==
    {i \in 1..Len(items) :
        items[i].name = name \/ items[i].name = <<Prefix>> \o name}

C10_LookupBeforeUpdate ==
    \A w \in Workers :
        /\ pc[w] \in {"allreduce", "reduced"} => codebook[w] = codebook_in[w]
        /\ (Returned(w) /\ updates[w] = 0) => codebook[w] = codebook_in[w]
        /\ (Returned(w) /\ stage_pct[w] = "tokenizer") =>
              LET quantized == MatMul(Encodings(encoding_indices[w]),
                                      codebook_in[w], TokenDim)
              IN  /\ encoding_indices[w]
                        = EncodingIndices(encode_feat[w], codebook_in[w])
                  /\ MatEq(part_token_feat[w], quantized)
                  /\ MatEq(Flatten(out_part_token_feat[w]), quantized)
                  /\ train[w] =>
                        REq(e_latent_loss[w], MseLoss(quantized, encode_feat[w]))

C10_Witness ==
    \E w \in Workers :
        /\ Returned(w) /\ TokenizerTrain(w) /\ updates[w] = 1
        /\ calls[w] = MaxCalls
        /\ ema_cluster_size_in[w] # Zeros
        /\ ~MatEq(codebook[w], codebook_in[w])
        /\ encoding_indices[w] # EncodingIndices(encode_feat[w], codebook[w])

====
